---- MODULE Spec2Model ----
(***************************************************************************)
(* Model of the Conan recipe UcblockConan (conanfile.py): the package      *)
(* build it drives (dependency resolution, source(), build(), package())   *)
(* and the text patch source() applies to CMakeLists.txt.                  *)
(*                                                                         *)
(* CMakeLists.txt is a sequence of words (the text split at single         *)
(* blanks, a line break being a word of its own), so that the anchor       *)
(* 'LANGUAGES C CXX)' is a three-word substring and the search and the     *)
(* replacement are substring operations, as in Python's str.find and       *)
(* str.replace.                                                            *)
(***************************************************************************)
EXTENDS Naturals, Integers, Sequences, FiniteSets, TLC

VARIABLES
    pc,              \* the method the orchestrator calls next, or done / failed
    options,         \* self.options: [shared, fPIC]
    flow,            \* "create" (sources exported to the cache) or "local" (working tree)
    tree,            \* the files of the working tree the recipe lies in
    cmakelists,      \* the content of CMakeLists.txt on disk
    original,        \* the content of CMakeLists.txt before the run (history)
    writes,          \* how many times CMakeLists.txt was saved (history)
    build_folder,    \* what the native build produced
    package_folder,  \* the package-staging directory
    log              \* the sub-actions run so far, in order (history)

vars == <<pc, options, flow, tree, cmakelists, original, writes,
          build_folder, package_folder, log>>

----------------------------------------------------------------------------
(* Bounds *)

\* the initial CMakeLists.txt is made of at most this many pieces
MaxPieces == 3

\* source() is invoked again at most this many times (SpecRerun only)
MaxReruns == 2

----------------------------------------------------------------------------
(* The recipe's attributes *)

default_options == [shared |-> FALSE, fPIC |-> TRUE]

OptionValues == [shared : BOOLEAN, fPIC : BOOLEAN]

requires == "smspp/0.5.2@smspp/testing"

\* a path is <<directory, name>>; the top level is the directory ""
exports_sources ==
    << <<"", "CMakeLists.txt">>, <<"src", "*">>, <<"include", "*">>,
       <<"cmake", "*">>, <<"tools", "*">> >>

\* package_info(): cpp_info.includedirs and cpp_info.libs
includedirs == { <<"include", "">>, <<"include", "SMS++">> }

libs == { <<"lib", "UCBlock">> }

----------------------------------------------------------------------------
(* The text of CMakeLists.txt *)

NL == "\n"

INCLUDE == "include(${CMAKE_BINARY_DIR}/conanbuildinfo.cmake)"

SETUP == "conan_basic_setup()"

\* first argument of tools.replace_in_file after the file name
search == <<"LANGUAGES", "C", "CXX)">>

\* a plausible slip: the two inserted lines in the other order
replace_call_first == search \o <<NL>> \o <<SETUP>> \o <<NL>> \o <<INCLUDE>>

\* second argument: the anchor, a line break, the include, a line break, the call
replace == search \o <<NL>> \o <<INCLUDE>> \o <<NL>> \o <<SETUP>>

\* s has p as a substring starting at position i
StartsWithAt(s, i, p) ==
    /\ i + Len(p) - 1 <= Len(s)
    /\ \A k \in 1..Len(p) : s[i + k - 1] = p[k]

Occurrences(s, p) == { i \in 1..Len(s) : StartsWithAt(s, i, p) }

\* Python's str.find: the 0-based index of the first occurrence, or -1
find(s, p) ==
    IF Occurrences(s, p) = {} THEN -1
    ELSE (CHOOSE i \in Occurrences(s, p) : \A j \in Occurrences(s, p) : i <= j) - 1

\* Python's str.replace: every non-overlapping occurrence, left to right
RECURSIVE str_replace_from(_, _, _, _)
str_replace_from(s, i, old, new) ==
    IF i > Len(s) THEN <<>>
    ELSE IF StartsWithAt(s, i, old)
         THEN new \o str_replace_from(s, i + Len(old), old, new)
         ELSE <<s[i]>> \o str_replace_from(s, i + 1, old, new)

str_replace(s, old, new) == str_replace_from(s, 1, old, new)

\* a plausible slip: strict=False, so that a missing anchor is only warned about
replace_in_file_not_strict(content, old, new) ==
    [raised |-> FALSE, saved |-> TRUE, content |-> str_replace(content, old, new)]

\* tools.replace_in_file(file, search, replace), strict by default: raises when
\* the text is not found, before anything is saved; else replaces and saves
replace_in_file(content, old, new) ==
    IF find(content, old) = -1
    THEN [raised |-> TRUE, saved |-> FALSE, content |-> content]
    ELSE [raised |-> FALSE, saved |-> TRUE, content |-> str_replace(content, old, new)]

----------------------------------------------------------------------------
(* The files *)

LICENSE == <<"", "LICENSE">>

BaseTree ==
    { <<"", "CMakeLists.txt">>, <<"src", "UCBlock.cpp">>, <<"include", "UCBlock.h">>,
      <<"", "README.md">> }

\* fnmatch of a path against one pattern of exports_sources
Matches(path, pattern) ==
    /\ path[1] = pattern[1]
    /\ pattern[2] = "*" \/ pattern[2] = path[2]

Exported(files) ==
    { f \in files : \E k \in 1..Len(exports_sources) : Matches(f, exports_sources[k]) }

\* what the recipe's methods find in their source and build folders
BuildContext(fl, files) == IF fl = "create" THEN Exported(files) ELSE files

\* self.copy(pattern, dst): every matching file of the context lands under dst;
\* copying nothing is not an error
copy(context, pattern, dst) ==
    { <<dst, f[2]>> : f \in { g \in context : Matches(g, pattern) } }

----------------------------------------------------------------------------
(* The configuration *)

\* CMake(self): the definitions derived from the options (the settings are
\* those of one platform, not Windows, and stay fixed over the run)
CMake(opts) ==
    [BUILD_SHARED_LIBS |-> opts.shared,
     CONAN_CMAKE_POSITION_INDEPENDENT_CODE |-> (opts.fPIC \/ opts.shared)]

\* a plausible slip: the override follows an option
configure_cmake_follows_shared(opts) == ("BUILD_TESTING" :> opts.shared) @@ CMake(opts)

\* _configure_cmake: the definitions handed to cmake.configure()
configure_cmake(opts) == ("BUILD_TESTING" :> FALSE) @@ CMake(opts)

NoDefs == <<>>

Event(op, ok, defs) == [op |-> op, ok |-> ok, defs |-> defs]

----------------------------------------------------------------------------
(* The initial state *)

Pieces == { search, <<"LANGUAGES", "CXX)">>, <<NL>>, <<INCLUDE>>, <<"project(UCBlock">> }

RECURSIVE Flatten(_)
Flatten(ps) == IF ps = <<>> THEN <<>> ELSE Head(ps) \o Flatten(Tail(ps))

InitialFiles ==
    { Flatten(ps) : ps \in UNION { [1..n -> Pieces] : n \in 0..MaxPieces } }

Init ==
    /\ pc = "requirements"
    /\ options \in OptionValues
    /\ flow \in {"create", "local"}
    /\ tree \in { BaseTree, BaseTree \cup {LICENSE} }
    /\ cmakelists \in InitialFiles
    /\ original = cmakelists
    /\ writes = 0
    /\ build_folder = {}
    /\ package_folder = {}
    /\ log = <<>>

----------------------------------------------------------------------------
(* The methods, in the order the orchestrator calls them.  A method that    *)
(* raises ends the run: the recipe catches nothing.                         *)

\* what cmake.install() writes into the package folder
Installed == includedirs \cup libs

\* what cmake.build() leaves in the build folder
Built == libs

\* a plausible slip: a failed resolution that does not stop the run
requirements_goes_on ==
    /\ pc = "requirements"
    /\ \E ok \in BOOLEAN :
         /\ log' = Append(log, Event("requirements", ok, NoDefs))
         /\ pc' = "source"
    /\ UNCHANGED <<options, flow, tree, cmakelists, original, writes,
                   build_folder, package_folder>>

\* requires: the one dependency is resolved before any method of the recipe runs
requirements ==
    /\ pc = "requirements"
    /\ \E ok \in BOOLEAN :
         /\ log' = Append(log, Event("requirements", ok, NoDefs))
         /\ pc' = IF ok THEN "source" ELSE "failed"
    /\ UNCHANGED <<options, flow, tree, cmakelists, original, writes,
                   build_folder, package_folder>>

\* the body of source(): one call of tools.replace_in_file on CMakeLists.txt
Patch(next) ==
    LET r == replace_in_file(cmakelists, search, replace) IN
    /\ cmakelists' = r.content
    /\ writes' = IF r.saved THEN writes + 1 ELSE writes
    /\ log' = Append(log, Event("replace_in_file", ~r.raised, NoDefs))
    /\ pc' = IF r.raised THEN "failed" ELSE next
    /\ UNCHANGED <<options, flow, tree, original, build_folder, package_folder>>

\* source()
source ==
    /\ pc = "source"
    /\ Patch("build")

\* source() invoked once more on the file it has patched (SpecRerun only)
source_again ==
    /\ pc = "build"
    /\ writes <= MaxReruns
    /\ Patch("build")

\* a plausible slip: cmake.build() on a handle that was never configured
build_without_configure ==
    /\ pc = "build"
    /\ \E buildOk \in BOOLEAN :
         /\ log' = Append(log, Event("build", buildOk, NoDefs))
         /\ build_folder' = IF buildOk THEN Built ELSE build_folder
         /\ pc' = IF buildOk THEN "package" ELSE "failed"
    /\ UNCHANGED <<options, flow, tree, cmakelists, original, writes, package_folder>>

\* build(): _configure_cmake(), then cmake.build()
build ==
    /\ pc = "build"
    /\ \E configureOk, buildOk \in BOOLEAN :
         LET configured == Append(log, Event("configure", configureOk, configure_cmake(options)))
         IN
         /\ log' = IF configureOk
                   THEN Append(configured, Event("build", buildOk, NoDefs))
                   ELSE configured
         /\ build_folder' = IF configureOk /\ buildOk THEN Built ELSE build_folder
         /\ pc' = IF configureOk /\ buildOk THEN "package" ELSE "failed"
    /\ UNCHANGED <<options, flow, tree, cmakelists, original, writes, package_folder>>

\* a plausible slip: package() makes a CMake of its own and skips _configure_cmake()
package_configures_anew ==
    /\ pc = "package"
    /\ \E configureOk, installOk \in BOOLEAN :
         LET copied == copy(BuildContext(flow, tree), LICENSE, "licenses")
             licensed == Append(log, Event("copy", TRUE, NoDefs))
             configured == Append(licensed, Event("configure", configureOk, CMake(options)))
         IN
         /\ log' = IF configureOk
                   THEN Append(configured, Event("install", installOk, NoDefs))
                   ELSE configured
         /\ package_folder' = IF configureOk /\ installOk
                              THEN package_folder \cup copied \cup Installed
                              ELSE package_folder \cup copied
         /\ pc' = IF configureOk /\ installOk THEN "done" ELSE "failed"
    /\ UNCHANGED <<options, flow, tree, cmakelists, original, writes, build_folder>>

\* package(): self.copy of the license, then _configure_cmake(), then cmake.install()
package ==
    /\ pc = "package"
    /\ \E configureOk, installOk \in BOOLEAN :
         LET copied == copy(BuildContext(flow, tree), LICENSE, "licenses")
             licensed == Append(log, Event("copy", TRUE, NoDefs))
             configured == Append(licensed,
                                  Event("configure", configureOk, configure_cmake(options)))
         IN
         /\ log' = IF configureOk
                   THEN Append(configured, Event("install", installOk, NoDefs))
                   ELSE configured
         /\ package_folder' = IF configureOk /\ installOk
                              THEN package_folder \cup copied \cup Installed
                              ELSE package_folder \cup copied
         /\ pc' = IF configureOk /\ installOk THEN "done" ELSE "failed"
    /\ UNCHANGED <<options, flow, tree, cmakelists, original, writes, build_folder>>

Next == requirements \/ source \/ build \/ package

Spec == Init /\ [][Next]_vars

NextRerun == requirements \/ source \/ source_again \/ build \/ package

SpecRerun == Init /\ [][NextRerun]_vars

----------------------------------------------------------------------------
(* What the claims speak of *)

Count(s, p) == Cardinality(Occurrences(s, p))

Ran(op) == \E i \in 1..Len(log) : log[i].op = op

Last == log[Len(log)]

IsPrefix(a, b) == Len(a) <= Len(b) /\ \A i \in 1..Len(a) : a[i] = b[i]

LicenseFile == <<"licenses", "LICENSE">>

NotCopy(e) == e.op # "copy"

\* the sub-actions run so far, the license copy left out
Steps == [i \in 1..Len(SelectSeq(log, NotCopy)) |-> SelectSeq(log, NotCopy)[i].op]

StepOrder == <<"requirements", "replace_in_file", "configure", "build", "configure", "install">>

ConfigureCalls == { i \in 1..Len(log) : log[i].op = "configure" }

\* the one place of the anchor in the original file (when there is exactly one)
Anchor == CHOOSE i \in Occurrences(original, search) : TRUE

----------------------------------------------------------------------------
(* C1: however often source() is applied, the file holds no more copies of *)
(* the include line than the original held, plus one per anchor of the     *)
(* original: a second application fails or changes nothing.                *)
C1_NoDuplicatedInclude ==
    Count(cmakelists, <<INCLUDE>>) <= Count(original, <<INCLUDE>>) + Count(original, search)

(* C2: when the anchor occurs more than once in CMakeLists.txt, source()   *)
(* fails and inserts nowhere: the file stays as it was.                    *)
C2_DuplicatedAnchorFails ==
    (Count(original, search) > 1 /\ Ran("replace_in_file"))
        => (pc = "failed" /\ ~log[2].ok /\ cmakelists = original)

(* C3: when CMakeLists.txt holds no anchor, source() reports failure, the  *)
(* file is left as it was, and no configure, build, license copy or        *)
(* install runs afterwards.                                                 *)
C3_MissingAnchorFails ==
    (Count(original, search) = 0 /\ Ran("replace_in_file"))
        => /\ pc = "failed"
           /\ Last.op = "replace_in_file" /\ ~Last.ok
           /\ cmakelists = original /\ writes = 0
           /\ ~Ran("configure") /\ ~Ran("build") /\ ~Ran("copy") /\ ~Ran("install")
           /\ build_folder = {} /\ package_folder = {}

C3_Witness ==
    /\ Count(original, search) = 0
    /\ Len(original) > 0
    /\ Ran("replace_in_file")

(* C4: when package() has succeeded, the package folder holds              *)
(* licenses/LICENSE and the installed artifacts.                           *)
C4_PackagedWithLicense ==
    pc = "done" => (LicenseFile \in package_folder /\ Installed \subseteq package_folder)

(* C5: every call of the configure step, from build() or from package(),   *)
(* and whatever the options, hands the native configure the definition     *)
(* BUILD_TESTING with the value false.                                     *)
C5_BuildTestingOff ==
    \A i \in ConfigureCalls :
        /\ "BUILD_TESTING" \in DOMAIN log[i].defs
        /\ log[i].defs["BUILD_TESTING"] = FALSE

C5_Witness ==
    /\ Cardinality(ConfigureCalls) = 2
    /\ options.shared /\ ~options.fPIC

(* C6: the sub-actions of a run occur in the order dependency resolution, *)
(* patch, configure, native build, configure, native install (the license  *)
(* copy of package() comes before its configure); CMakeLists.txt is saved  *)
(* at most once, by source(), before the first configure; every native     *)
(* build and every native install comes right after a successful configure *)
(* of the same method; no step other than source() changes the file.       *)
C6_OrderOfSteps ==
    /\ IsPrefix(Steps, StepOrder)
    /\ pc = "done" => Steps = StepOrder
    /\ writes <= 1
    /\ writes = (IF Ran("replace_in_file") /\ log[2].ok THEN 1 ELSE 0)
    /\ cmakelists # original => writes = 1
    /\ \A i \in 1..Len(log) :
         log[i].op \in {"build", "install"}
            => (i > 1 /\ log[i - 1].op = "configure" /\ log[i - 1].ok)

C6_OnlySourceWrites ==
    (cmakelists' # cmakelists \/ writes' # writes) => pc = "source"

(* C6, as a whole: the order holds in every state of a run and only        *)
(* source() writes CMakeLists.txt.                                         *)
C6_Sequential == [](C6_OrderOfSteps) /\ [][C6_OnlySourceWrites]_vars

C6_Witness ==
    /\ pc = "done"
    /\ Len(log) = 7
    /\ writes = 1

(* C7: a failed sub-action is the last one of the run, the run ends        *)
(* failed, and the package folder is not left with the copied license but  *)
(* without the installed artifacts.                                         *)
C7_FailureLeavesNoPartialPackage ==
    /\ \A i \in 1..Len(log) : ~log[i].ok => (i = Len(log) /\ pc = "failed")
    /\ pc = "failed" => ~(LicenseFile \in package_folder /\ ~(Installed \subseteq package_folder))

C9_TwoLinesAfterAnchor ==
    (Count(original, search) = 1 /\ Ran("replace_in_file"))
        => /\ log[2].ok
           /\ cmakelists = SubSeq(original, 1, Anchor - 1)
                             \o search
                             \o <<NL, INCLUDE, NL, SETUP>>
                             \o SubSeq(original, Anchor + Len(search), Len(original))

C9_Witness ==
    /\ Count(original, search) = 1
    /\ Ran("replace_in_file")
    /\ Anchor > 1
    /\ Anchor + Len(search) <= Len(original)

(* C10: the configure step called from build() and the one called from    *)
(* package() hand the native configure the same definitions, those the    *)
(* options give plus BUILD_TESTING = false; no step changes the options.   *)
C10_SameDefinitions ==
    \A i, j \in ConfigureCalls :
        /\ log[i].defs = log[j].defs
        /\ DOMAIN log[i].defs =
              {"BUILD_TESTING", "BUILD_SHARED_LIBS", "CONAN_CMAKE_POSITION_INDEPENDENT_CODE"}
        /\ log[i].defs["BUILD_SHARED_LIBS"] = options.shared
        /\ log[i].defs["CONAN_CMAKE_POSITION_INDEPENDENT_CODE"] = (options.fPIC \/ options.shared)

====
